---- MODULE Spec2Model ----
(***************************************************************************)
(* The full-text search subsystem of ObsidianPilot: the FTS5 index store   *)
(* (utils/fts_search.py), the index updater (utils/index_updater.py), the  *)
(* search facade (tools/fast_search.py), the first-use background start    *)
(* (server.py) and the note tools that schedule refreshes                  *)
(* (tools/note_management.py).                                             *)
(*                                                                         *)
(* Everything runs on one asyncio loop. A coroutine runs without           *)
(* interruption from one await to the next, so every action below is the   *)
(* code between two awaits of one coroutine; coroutines interleave freely  *)
(* at awaits. All coroutines share one aiosqlite connection, so each sees  *)
(* the other's statements at once, committed or not.                       *)
(*                                                                         *)
(* Strings are sequences of atoms. An atom is a character ("/", "\\") or a *)
(* run of characters none of the string tests of the code can split        *)
(* (".trash", "tag:", a word).                                             *)
(***************************************************************************)
EXTENDS Integers, Sequences, FiniteSets, Bags, TLC

VARIABLES
    disk,           \* the vault: path -> [exists, content, mtime]
    clock,          \* the filesystem clock that stamps st_mtime
    fts,            \* table notes_fts: a bag of rows (the table has no key)
    meta,           \* table notes_metadata: filepath (PRIMARY KEY) -> row
    engineUp,       \* whether statements on the shared connection succeed
    outages,        \* how often the engine has become unavailable
    file_mtimes,    \* IndexUpdater._file_mtimes
    started,        \* server._background_index_started
    updater,        \* index_updater._index_updater and its auto-update loop
    tasks,          \* the coroutines in flight: a bag of frames
    done,           \* the result of the handler that returned last
    calls,          \* tool calls accepted so far, per kind
    spawned,        \* what start_background_index has created so far
    origin,         \* the index and _file_mtimes the run started from
    initialized,    \* FTSSearchIndex._initialized
    removed,        \* paths whose direct remove_file call has returned
    returned,       \* per path, the direct index_file calls that have returned
    conn,           \* the connections opened, FTSSearchIndex.db and the schema
    running         \* IndexUpdater._running

vars == <<disk, clock, fts, meta, engineUp, outages, file_mtimes, started,
          updater, tasks, done, calls, spawned, origin, initialized, removed,
          returned, conn, running>>

----------------------------------------------------------------------------
(* Bounds of the model.                                                    *)

MaxWrites == 2
MaxSearches == 2
MaxRebuilds == 2
MaxOutages == 1
MaxTasks == 3
MaxCalls == 2

----------------------------------------------------------------------------
(* Paths, contents and queries.                                            *)

PathA == <<"a", ".md">>
PathB == <<"b", ".md">>
PathC == <<"c", ".md">>
PathTrash == <<".trash", "/", "a", ".md">>
PathConfig == <<"x", "\\", ".obsidian", "\\", "c", ".md">>
PathSpaced == <<"my", " ", "note", ".md">>
PathInDaily == <<"Daily", "/", "today", ".md">>
PathNamedDaily == <<"Daily", ".md">>
NoPath == <<>>

\* The order in which the vault lists notes.
PathOrder == <<PathA, PathB, PathC, PathTrash, PathConfig>>

SyncPaths == {PathA, PathTrash, PathConfig}

Content1 == <<"alpha">>
Content2 == <<"beta", "gamma">>
Contents == {Content1, Content2}
NoContent == <<>>

NoFile == [exists |-> FALSE, content |-> NoContent, mtime |-> 0]

StartsWith(s, pre) ==
    /\ Len(s) >= Len(pre)
    /\ SubSeq(s, 1, Len(pre)) = pre

Contains(s, sub) ==
    \E i \in 1..(Len(s) - Len(sub) + 1) : SubSeq(s, i, i + Len(sub) - 1) = sub

\* filepath.replace('\\', '/')
Normalized(p) == [i \in 1..Len(p) |-> IF p[i] = "\\" THEN "/" ELSE p[i]]

UnnormalizedExcluded(p) ==
    \/ StartsWith(p, <<".trash", "/">>)
    \/ Contains(p, <<"/", ".trash", "/">>)
    \/ StartsWith(p, <<".obsidian", "/">>)
    \/ Contains(p, <<"/", ".obsidian", "/">>)

\* The test that skips .trash and .obsidian, written out three times in the
\* source: index_updater.py 53-55 and 159-161, fts_search.py 382-384.
IsExcluded(p) ==
    LET filepath_normalized == Normalized(p) IN
    \/ StartsWith(filepath_normalized, <<".trash", "/">>)
    \/ Contains(filepath_normalized, <<"/", ".trash", "/">>)
    \/ StartsWith(filepath_normalized, <<".obsidian", "/">>)
    \/ Contains(filepath_normalized, <<"/", ".obsidian", "/">>)

\* The paths of S in listing order.
RECURSIVE InOrder(_, _)
InOrder(S, i) ==
    IF i > Len(PathOrder) THEN <<>>
    ELSE (IF PathOrder[i] \in S THEN <<PathOrder[i]>> ELSE <<>>) \o InOrder(S, i + 1)

\* vault.list_notes(recursive=True): every note of the vault.
list_notes(d) == InOrder({p \in DOMAIN d : d[p].exists}, 1)

Range(s) == {s[i] : i \in 1..Len(s)}

----------------------------------------------------------------------------
(* The index store's statements.                                           *)

\* Path(filepath).stem: the last component without its suffix.
Suffixes == {".md"}

LastSeparator(p) ==
    LET at == {i \in 1..Len(p) : p[i] = "/"} IN
    IF at = {} THEN 0 ELSE CHOOSE i \in at : \A j \in at : j <= i

Stem(p) ==
    LET name == SubSeq(p, LastSeparator(p) + 1, Len(p)) IN
    IF Len(name) > 1 /\ name[Len(name)] \in Suffixes
    THEN SubSeq(name, 1, Len(name) - 1)
    ELSE name

\* The row index_file inserts. The notes of the model have no tags and no
\* frontmatter, so the columns tags and properties are empty.
Row(p, c) == [filepath |-> p, filename |-> Stem(p), content |-> c]

\* The table when line 99 is left out.
FtsDeleteNothing(t, p) == t

\* DELETE FROM notes_fts WHERE filepath = ?
FtsDelete(t, p) ==
    LET keep == {r \in DOMAIN t : r.filepath # p} IN [r \in keep |-> t[r]]

\* INSERT INTO notes_fts (...) VALUES (...)
FtsInsert(t, p, c) == t (+) SetToBag({Row(p, c)})

\* INSERT OR REPLACE INTO notes_metadata (...) VALUES (...)
MetaUpsert(m, p, c) ==
    [q \in DOMAIN m \cup {p} |-> IF q = p THEN [size |-> Len(c)] ELSE m[q]]

\* DELETE FROM notes_metadata WHERE filepath = ?
MetaDelete(m, p) == [q \in DOMAIN m \ {p} |-> m[q]]

\* SELECT COUNT(*) FROM notes_fts
total_files(t) == BagCardinality(t)

\* The number of rows of notes_fts for one filepath.
RowsFor(p) == total_files(fts) - total_files(FtsDelete(fts, p))

EmptyFts == EmptyBag
EmptyMeta == [q \in {} |-> [size |-> 0]]

----------------------------------------------------------------------------
(* Queries.                                                                *)

QueryPlain == <<"alpha">>
QueryTag == <<"tag:", "alpha">>
QueryPath == <<"path:", "a">>
QueryProperty == <<"property:", "status", ":", "active">>
QueryOpenQuote == <<"\"", "alpha">>
QueryUnsafe == <<"alpha", ";">>
QueryEmpty == <<>>
QueryTwoWords == <<"beta", " ", "gamma">>

QueryDotted == <<"a", ".md">>

FacadeQueries == {QueryPlain, QueryTag, QueryProperty, QueryUnsafe, QueryDotted}

\* The whitespace atoms of the model.
Whitespace == {" ", "\t"}

\* str.strip()
RECURSIVE LStrip(_)
LStrip(s) == IF s # <<>> /\ Head(s) \in Whitespace THEN LStrip(Tail(s)) ELSE s

RECURSIVE RStrip(_)
RStrip(s) ==
    IF s # <<>> /\ s[Len(s)] \in Whitespace
    THEN RStrip(SubSeq(s, 1, Len(s) - 1)) ELSE s

Strip(s) == LStrip(RStrip(s))

\* str.replace(old, new): leftmost first, matches do not overlap.
RECURSIVE Replace(_, _, _)
Replace(s, old, new) ==
    IF Len(s) < Len(old) THEN s
    ELSE IF SubSeq(s, 1, Len(old)) = old
         THEN new \o Replace(SubSeq(s, Len(old) + 1, Len(s)), old, new)
         ELSE <<Head(s)>> \o Replace(Tail(s), old, new)

MaxQueryLen == 1000

\* A word of MaxQueryLen - 1 characters, none of them of a denylisted
\* pattern.
LongWord == "x...x"

\* The characters of the atoms that validate_query can tell apart; any other
\* atom stands for itself.
Spell(a) ==
    CASE a = "drop" -> <<"d", "r", "o", "p">>
      [] a = "Drop" -> <<"D", "r", "o", "p">>
      [] a = "DROP" -> <<"D", "R", "O", "P">>
      [] a = "delete" -> <<"d", "e", "l", "e", "t", "e">>
      [] a = "insert" -> <<"i", "n", "s", "e", "r", "t">>
      [] a = "updated" -> <<"u", "p", "d", "a", "t", "e", "d">>
      [] a = "up" -> <<"u", "p">>
      [] a = "date" -> <<"d", "a", "t", "e">>
      [] a = "--" -> <<"-", "-">>
      [] OTHER -> <<a>>

RECURSIVE Chars(_)
Chars(s) == IF s = <<>> THEN <<>> ELSE Spell(Head(s)) \o Chars(Tail(s))

\* len(query): LongWord counts for its characters.
RECURSIVE TextLen(_)
TextLen(s) ==
    IF s = <<>> THEN 0
    ELSE (IF Head(s) = LongWord THEN MaxQueryLen - 1 ELSE Len(Spell(Head(s))))
         + TextLen(Tail(s))

\* str.upper(), one character at a time.
UpperChar(c) ==
    CASE c = "a" -> "A" [] c = "d" -> "D" [] c = "e" -> "E" [] c = "i" -> "I"
      [] c = "l" -> "L" [] c = "n" -> "N" [] c = "o" -> "O" [] c = "p" -> "P"
      [] c = "r" -> "R" [] c = "s" -> "S" [] c = "t" -> "T" [] c = "u" -> "U"
      [] OTHER -> c

Upper(s) == LET text == Chars(s) IN [i \in 1..Len(text) |-> UpperChar(text[i])]

\* Line 332.
dangerous_patterns ==
    {<<"-", "-">>, <<";">>, <<"D", "R", "O", "P">>,
     <<"D", "E", "L", "E", "T", "E">>, <<"I", "N", "S", "E", "R", "T">>,
     <<"U", "P", "D", "A", "T", "E">>}

\* validate_query without the upper-casing of line 333.
validate_query_as_typed(q) ==
    /\ q # <<>>
    /\ Strip(q) # <<>>
    /\ TextLen(q) <= MaxQueryLen
    /\ \A pattern \in dangerous_patterns : ~Contains(Chars(q), pattern)

\* QueryParser.validate_query: TRUE when the query passes.
validate_query(q) ==
    /\ q # <<>>
    /\ Strip(q) # <<>>
    /\ TextLen(q) <= MaxQueryLen
    /\ LET query_upper == Upper(q) IN
       \A pattern \in dangerous_patterns : ~Contains(query_upper, pattern)

\* FTSSearchIndex._transform_query, for a query that is not blank.
transform_query(q) ==
    IF Head(q) = "\"" /\ q[Len(q)] = "\"" THEN q
    ELSE LET q1 == Replace(q, <<" ", "or", " ">>, <<" ", "OR", " ">>)
             q2 == Replace(q1, <<" ", "and", " ">>, <<" ", "AND", " ">>)
             q3 == Replace(q2, <<" ", "not", " ">>, <<" ", "NOT", " ">>)
         IN  IF /\ ~Contains(q3, <<" ", "OR", " ">>)
                /\ ~Contains(q3, <<" ", "AND", " ">>)
                /\ ~Contains(q3, <<" ", "NOT", " ">>)
                /\ Contains(Strip(q3), <<" ">>)
                /\ Head(q3) # "\""
             THEN <<"\"">> \o Strip(q3) \o <<"\"">>
             ELSE Strip(q3)

\* Whether SQLite's FTS5 parses the MATCH expression. Outside a string only
\* barewords, the operators, a known column name before ":" and blanks are
\* allowed, and every string is closed.
Columns == {"filename", "content", "tags", "properties"}
Operators == {"AND", "OR", "NOT"}
Punctuation == {";", "--", "-", "/", "\\", ".", "'", ":", ".md",
                "tag:", "path:", "property:"}

RECURSIVE FtsParses(_, _)
FtsParses(q, inString) ==
    IF q = <<>> THEN ~inString
    ELSE IF Head(q) = "\"" THEN FtsParses(Tail(q), ~inString)
    ELSE IF inString THEN FtsParses(Tail(q), inString)
    ELSE IF Head(q) \in Columns /\ Len(q) >= 2 /\ q[2] = ":"
         THEN FtsParses(Tail(Tail(q)), inString)
    ELSE IF Head(q) \in Punctuation THEN FALSE
    ELSE FtsParses(Tail(q), inString)

EngineAccepts(q) == Strip(q) # <<>> /\ FtsParses(q, FALSE)

\* The tokenizer (unicode61): words in lower case, separators dropped. The
\* words of the model are their own stems.
LowerAtom(a) ==
    CASE a = "Daily" -> "daily"
      [] a = "And" -> "and"
      [] a = "AND" -> "and"
      [] a = "OR" -> "or"
      [] a = "NOT" -> "not"
      [] a = ".md" -> "md"
      [] a = "tag:" -> "tag"
      [] a = "path:" -> "path"
      [] a = "property:" -> "property"
      [] OTHER -> a

Separators == Whitespace \cup {";", "--", "-", "/", "\\", ".", "'", ":", "\"", "#"}

RECURSIVE Tokens(_)
Tokens(s) ==
    IF s = <<>> THEN <<>>
    ELSE IF Head(s) \in Separators THEN Tokens(Tail(s))
    ELSE <<LowerAtom(Head(s))>> \o Tokens(Tail(s))

\* The text of one column of a row.
ColumnText(r, col) ==
    CASE col = "filename" -> r.filename
      [] col = "content" -> r.content
      [] OTHER -> <<>>

\* The row has the tokens of the phrase, in a row, in one of the columns.
HasPhrase(r, cols, toks) ==
    \E col \in cols : Contains(Tokens(ColumnText(r, col)), toks)

\* The position of the first double quote of s, or Len(s) + 1.
RECURSIVE QuoteAt(_, _)
QuoteAt(s, i) ==
    IF i > Len(s) \/ s[i] = "\"" THEN i ELSE QuoteAt(s, i + 1)

\* The rows of table t that a MATCH expression the engine accepts selects:
\* terms are barewords or strings, with a column filter or without, joined
\* by AND (also when no operator stands between them), OR or NOT from left
\* to right. A string without a token is skipped; an expression of nothing
\* else selects no row.
RECURSIVE Select(_, _, _, _, _)
Select(t, q, rows, op, seen) ==
    IF q = <<>> THEN (IF seen THEN rows ELSE {})
    ELSE IF Head(q) \in Whitespace THEN Select(t, Tail(q), rows, op, seen)
    ELSE IF Head(q) \in Operators THEN Select(t, Tail(q), rows, Head(q), seen)
    ELSE LET filtered == Head(q) \in Columns /\ Len(q) >= 2 /\ q[2] = ":"
             cols == IF filtered THEN {Head(q)} ELSE Columns
             term == IF filtered THEN LStrip(Tail(Tail(q))) ELSE q
         IN  IF term = <<>> THEN (IF seen THEN rows ELSE {})
             ELSE LET string == Head(term) = "\""
                      close == QuoteAt(Tail(term), 1)
                      phrase == IF string THEN SubSeq(Tail(term), 1, close - 1)
                                ELSE <<Head(term)>>
                      after == IF string
                               THEN SubSeq(term, close + 2, Len(term))
                               ELSE Tail(term)
                      toks == Tokens(phrase)
                      hits == {r \in DOMAIN t : HasPhrase(r, cols, toks)}
                  IN  IF toks = <<>> THEN Select(t, after, rows, "AND", seen)
                      ELSE Select(t, after,
                                  IF ~seen THEN hits
                                  ELSE IF op = "OR" THEN rows \cup hits
                                  ELSE IF op = "NOT" THEN rows \ hits
                                  ELSE rows \cap hits,
                                  "AND", TRUE)

\* SELECT filepath ... WHERE notes_fts MATCH ?
Matches(t, q) == {r.filepath : r \in Select(t, q, {}, "AND", FALSE)}

\* SELECT filepath ... WHERE content LIKE '%' || query.lower() || '%'
LowerSeq(s) == [i \in 1..Len(s) |-> LowerAtom(s[i])]

Likes(t, q) ==
    {r.filepath : r \in {x \in DOMAIN t :
                           q = <<>> \/ Contains(LowerSeq(x.content), LowerSeq(q))}}

----------------------------------------------------------------------------
(* Coroutine frames. pc names the await the coroutine is suspended on.     *)

NoReport == [status |-> "none", added |-> <<>>, modified |-> <<>>,
             deleted |-> <<>>, calls |-> <<>>, updated |-> 0]

\* Defaults and limits of max_results.
DefaultMaxResults == 50
SearchMaxResults == 500
FieldMaxResults == 200

\* The two waits of the loop of start_auto_update, in seconds.
LoopSleep == 10
ErrorSleep == 60

\* tool is the function the caller called and op the one that is running;
\* sleep is the asyncio.sleep an updater loop is in, 0 when it is in none;
\* field and value are what search_by_field was given, arg is the query
\* handed to fts.search and ftsq the expression handed to the engine.
Frame == [kind |-> "none", pc |-> "none", path |-> NoPath,
          content |-> NoContent, walk |-> <<>>, dels |-> <<>>,
          notes |-> <<>>, rep |-> NoReport, total |-> 0, op |-> "none",
          query |-> <<>>, ftsq |-> <<>>, empty |-> TRUE, executed |-> FALSE,
          tool |-> "none", field |-> "none", value |-> <<>>,
          limit |-> DefaultMaxResults, arg |-> <<>>, results |-> {},
          sleep |-> 0]

\* Tool calls accepted so far.
CallCount == calls.writes + calls.searches + calls.rebuilds

\* index_freshness before get_search_stats has made one.
NoFreshness == [label |-> "none", count |-> 0]

NoResult == [op |-> "none", query |-> <<>>, status |-> "none",
             empty |-> TRUE, executed |-> FALSE,
             tool |-> "none", field |-> "none", value |-> <<>>,
             limit |-> DefaultMaxResults, ftsq |-> <<>>, results |-> {},
             age |-> 0, freshness |-> NoFreshness]

InFlight == BagToSet(tasks)
InFlightCount == BagCardinality(tasks)

\* tasks with frame t replaced by the frames of the set next (none or one),
\* and the frames of the set more created.
Resume(t, next, more) == ((tasks (-) SetToBag({t})) (+) SetToBag(next)) (+) more

IndexPcs == {"ix_delete", "ix_insert", "ix_meta", "ix_commit"}
RemovePcs == {"rm_fts", "rm_meta", "rm_commit"}
ClearPcs == {"rb_clear_fts", "rb_clear_meta", "rb_commit"}

\* A statement that changes a table has been issued and the call that issued
\* it has not returned.
Mutating(t) == t.pc \in IndexPcs \cup RemovePcs \cup ClearPcs

RECURSIVE SkipExcluded(_)
SkipExcluded(w) ==
    IF w = <<>> THEN <<>>
    ELSE IF IsExcluded(Head(w)) THEN SkipExcluded(Tail(w)) ELSE w

\* asyncio.create_task(update_index_for_file(path))
RefreshTask(p) == [Frame EXCEPT !.kind = "refresh", !.pc = "rf_stats", !.path = p]

\* asyncio.create_task(rebuild_fts_index())
RebuildTask == [Frame EXCEPT !.kind = "rebuild", !.pc = "rb_clear_fts"]

\* asyncio.create_task(_index_updater.start_auto_update())
UpdaterTask == [Frame EXCEPT !.kind = "updater", !.pc = "up_list"]

\* Where a coroutine goes on once index_file or remove_file has returned or
\* raised, or a read has failed: the frames that replace it.
\*   update_index_for_file returns (index_updater.py 175-179);
\*   a call made on the index store itself returns to its caller;
\*   rebuild_fts_index takes the next note it does not skip (378-399);
\*   check_and_update takes the next added or modified file, then the next
\*   deleted one, then returns its report and the loop sleeps (84-107).
Continue(t) ==
    CASE t.kind = "refresh" -> {}
      [] t.kind = "call" -> {}
      [] t.kind = "rebuild" ->
            LET w == SkipExcluded(t.walk) IN
            IF w = <<>> THEN {}
            ELSE {[t EXCEPT !.pc = "rb_read", !.path = Head(w), !.walk = Tail(w),
                            !.content = NoContent]}
      [] t.kind = "updater" ->
            IF t.walk # <<>>
            THEN {[t EXCEPT !.pc = "up_read", !.path = Head(t.walk),
                            !.walk = Tail(t.walk), !.content = NoContent]}
            ELSE IF t.dels # <<>>
            THEN {[t EXCEPT !.pc = "rm_fts", !.path = Head(t.dels),
                            !.dels = Tail(t.dels), !.content = NoContent,
                            !.rep.calls = Append(@, <<"remove_file", Head(t.dels)>>)]}
            ELSE {[t EXCEPT !.pc = "up_list", !.path = NoPath,
                            !.content = NoContent, !.rep.status = "updated",
                            !.sleep = LoopSleep]}

\* updated_count += 1 / indexed_count += 1 after a call that returned.
Counted(t) ==
    IF t.kind = "updater" THEN [t EXCEPT !.rep.updated = @ + 1]
    ELSE IF t.kind = "rebuild" THEN [t EXCEPT !.total = @ + 1]
    ELSE t

\* The coroutine has read the note and calls index_file(note.path, ...), which
\* issues its DELETE.
CallIndexFile(t, c) ==
    [t EXCEPT !.pc = "ix_delete", !.content = c,
              !.rep.calls = IF t.kind = "updater"
                            THEN Append(@, <<"index_file", t.path>>) ELSE @]

\* The calls of index_file made on the store itself that have returned, for
\* each path: the contents they were given, in the order of their return,
\* and whether each call on the path was made with no other statement on
\* the path pending.
NoneReturned ==
    [p \in DOMAIN disk |-> [contents |-> <<>>, serial |-> TRUE, raised |-> "none"]]

\* A call on path p starts: it overlaps when a statement on p is pending.
Overlapping(p) ==
    IF \E u \in InFlight : u.path = p /\ Mutating(u)
    THEN [returned EXCEPT ![p].serial = FALSE]
    ELSE returned

\* The objects _create_fts_tables creates, in its order (lines 42-68).
SchemaObjects == <<"notes_fts", "notes_metadata", "idx_notes_mtime">>

\* No connection has been opened: db is None.
NotConnected == [opened |-> 0, db |-> 0, schema |-> Range(SchemaObjects)]

\* initialize has run once on the index file.
Connected == [opened |-> 1, db |-> 1, schema |-> Range(SchemaObjects)]

----------------------------------------------------------------------------
(* The state after construction.                                           *)

InitDisk == [p \in SyncPaths |-> [exists |-> TRUE, content |-> Content1, mtime |-> 0]]

\* The tables after index_file has been run for every path of f, with the
\* content f gives it.
IndexWith(f) == [fts |-> SetToBag({Row(p, f[p]) : p \in DOMAIN f}),
                 meta |-> [p \in DOMAIN f |-> [size |-> Len(f[p])]]]

\* The index file a previous run left: any set of notes that run indexed.
IndexOf(S) == [fts |-> SetToBag({Row(p, Content1) : p \in S}),
               meta |-> [p \in S |-> [size |-> Len(Content1)]]]

Init ==
    /\ disk = InitDisk
    /\ clock = 0
    /\ \E S \in SUBSET {PathA} :
          /\ fts = IndexOf(S).fts
          /\ meta = IndexOf(S).meta
    /\ engineUp = TRUE
    /\ outages = 0
    /\ file_mtimes = [p \in {} |-> 0]
    /\ started = FALSE
    /\ updater = FALSE
    /\ tasks = EmptyBag
    /\ done = NoResult
    /\ calls = [writes |-> 0, searches |-> 0, rebuilds |-> 0]
    /\ spawned = [rebuilds |-> 0, updaters |-> 0]
    /\ origin = [indexed |-> DOMAIN meta, file_mtimes |-> file_mtimes]
    /\ initialized = TRUE
    /\ removed = {}
    /\ returned = NoneReturned
    /\ conn = IF initialized THEN Connected ELSE NotConnected
    /\ running = (\E t \in BagToSet(tasks) : t.kind = "updater")

----------------------------------------------------------------------------
(* The note tools (tools/note_management.py).                              *)

Written(p, c) == [disk EXCEPT ![p] = [exists |-> TRUE, content |-> c, mtime |-> clock + 1]]

\* create_note(path, content): writes a note that does not exist and
\* schedules the refresh of its path.
create_note(p, c) ==
    /\ calls.writes < MaxWrites
    /\ CallCount < MaxCalls
    /\ InFlightCount < MaxTasks
    /\ ~disk[p].exists
    /\ disk' = Written(p, c)
    /\ clock' = clock + 1
    /\ tasks' = tasks (+) SetToBag({RefreshTask(p)})
    /\ calls' = [calls EXCEPT !.writes = @ + 1]
    /\ UNCHANGED <<fts, meta, engineUp, outages, file_mtimes, started, updater,
                   done, spawned, origin,
                   initialized, removed,
                   returned, conn, running>>

\* update_note(path, content, merge_strategy="replace"): overwrites a note
\* that exists and schedules the refresh of its path.
update_note(p, c) ==
    /\ calls.writes < MaxWrites
    /\ CallCount < MaxCalls
    /\ InFlightCount < MaxTasks
    /\ disk[p].exists
    /\ disk' = Written(p, c)
    /\ clock' = clock + 1
    /\ tasks' = tasks (+) SetToBag({RefreshTask(p)})
    /\ calls' = [calls EXCEPT !.writes = @ + 1]
    /\ UNCHANGED <<fts, meta, engineUp, outages, file_mtimes, started, updater,
                   done, spawned, origin,
                   initialized, removed,
                   returned, conn, running>>

\* delete_note(path): removes the note; it schedules nothing.
delete_note(p) ==
    /\ calls.writes < MaxWrites
    /\ CallCount < MaxCalls
    /\ disk[p].exists
    /\ disk' = [disk EXCEPT ![p] = NoFile]
    /\ calls' = [calls EXCEPT !.writes = @ + 1]
    /\ UNCHANGED <<clock, fts, meta, engineUp, outages, file_mtimes, started,
                   updater, tasks, done, spawned, origin,
                   initialized, removed,
                   returned, conn, running>>

----------------------------------------------------------------------------
(* FTSSearchIndex.index_file and remove_file, one statement at a time.     *)

\* One statement of index_file completes, or raises when the engine is
\* unavailable; index_file logs and re-raises, and each caller catches.
index_file(t) ==
    /\ t.pc \in IndexPcs
    /\ IF ~engineUp
       THEN /\ tasks' = Resume(t, Continue(t), EmptyBag)
            /\ UNCHANGED <<fts, meta>>
       ELSE CASE t.pc = "ix_delete" ->
                   /\ fts' = FtsDelete(fts, t.path)
                   /\ tasks' = Resume(t, {[t EXCEPT !.pc = "ix_insert"]}, EmptyBag)
                   /\ UNCHANGED meta
              [] t.pc = "ix_insert" ->
                   /\ fts' = FtsInsert(fts, t.path, t.content)
                   /\ tasks' = Resume(t, {[t EXCEPT !.pc = "ix_meta"]}, EmptyBag)
                   /\ UNCHANGED meta
              [] t.pc = "ix_meta" ->
                   /\ meta' = MetaUpsert(meta, t.path, t.content)
                   /\ tasks' = Resume(t, {[t EXCEPT !.pc = "ix_commit"]}, EmptyBag)
                   /\ UNCHANGED fts
              [] t.pc = "ix_commit" ->
                   /\ tasks' = Resume(t, Continue(Counted(t)), EmptyBag)
                   /\ UNCHANGED <<fts, meta>>
    /\ returned' = IF t.kind # "call" THEN returned
                   ELSE IF ~engineUp
                   THEN [returned EXCEPT ![t.path].raised = t.pc]
                   ELSE IF t.pc = "ix_commit"
                   THEN [returned EXCEPT ![t.path].contents = Append(@, t.content)]
                   ELSE returned
    /\ UNCHANGED <<disk, clock, engineUp, outages, file_mtimes, started, updater,
                   done, calls, spawned, origin,
                   initialized, removed, conn, running>>

\* One statement of remove_file completes or raises; only check_and_update
\* calls it, and catches.
remove_file(t) ==
    /\ t.pc \in RemovePcs
    /\ IF ~engineUp
       THEN /\ tasks' = Resume(t, Continue(t), EmptyBag)
            /\ UNCHANGED <<fts, meta>>
       ELSE CASE t.pc = "rm_fts" ->
                   /\ fts' = FtsDelete(fts, t.path)
                   /\ tasks' = Resume(t, {[t EXCEPT !.pc = "rm_meta"]}, EmptyBag)
                   /\ UNCHANGED meta
              [] t.pc = "rm_meta" ->
                   /\ meta' = MetaDelete(meta, t.path)
                   /\ tasks' = Resume(t, {[t EXCEPT !.pc = "rm_commit"]}, EmptyBag)
                   /\ UNCHANGED fts
              [] t.pc = "rm_commit" ->
                   /\ tasks' = Resume(t, Continue(Counted(t)), EmptyBag)
                   /\ UNCHANGED <<fts, meta>>
    /\ removed' = IF engineUp /\ t.pc = "rm_commit" /\ t.kind = "call"
                  THEN removed \cup {t.path} ELSE removed
    /\ UNCHANGED <<disk, clock, engineUp, outages, file_mtimes, started, updater,
                   done, calls, spawned, origin, initialized, returned, conn, running>>

\* vault.read_note(filepath) returns or raises FileNotFoundError; every
\* caller here catches what it raises and goes on.
read_note(t) ==
    /\ t.pc \in {"rf_read", "rb_read", "up_read"}
    /\ tasks' = Resume(t, IF disk[t.path].exists
                          THEN {CallIndexFile(t, disk[t.path].content)}
                          ELSE Continue(t), EmptyBag)
    /\ UNCHANGED <<disk, clock, fts, meta, engineUp, outages, file_mtimes,
                   started, updater, done, calls, spawned, origin,
                   initialized, removed,
                   returned, conn, running>>

----------------------------------------------------------------------------
(* update_index_for_file (utils/index_updater.py).                         *)

\* The task runs up to the return of get_stats (lines 157-171): an excluded
\* path returns at once, without a statement; with no document indexed the
\* refresh returns; else it reads the note. Whatever is raised is caught
\* and logged.
refresh_stats(t) ==
    /\ t.pc = "rf_stats"
    /\ tasks' = Resume(t, IF \/ IsExcluded(t.path)
                             \/ ~engineUp
                             \/ total_files(fts) = 0
                          THEN {}
                          ELSE {[t EXCEPT !.pc = "rf_read"]}, EmptyBag)
    /\ UNCHANGED <<disk, clock, fts, meta, engineUp, outages, file_mtimes,
                   started, updater, done, calls, spawned, origin,
                   initialized, removed,
                   returned, conn, running>>

----------------------------------------------------------------------------
(* IndexUpdater.check_and_update and the loop of start_auto_update.        *)

\* The sleep is over and the loop tests _running (line 117): the coroutine
\* returns after stop(), else the pass lists the vault.
pass_list(t) ==
    /\ t.pc = "up_list"
    /\ tasks' = Resume(t, IF running
                          THEN {[t EXCEPT !.pc = "up_stats",
                                          !.notes = list_notes(disk),
                                          !.rep = NoReport, !.sleep = 0]}
                          ELSE {}, EmptyBag)
    /\ UNCHANGED <<disk, clock, fts, meta, engineUp, outages, file_mtimes,
                   started, updater, done, calls, spawned, origin,
                   initialized, removed,
                   returned, conn, running>>

\* Lines 49-72: the live notes the pass does not skip, in listing order.
Candidates(notes) == SelectSeq(notes, LAMBDA p : ~IsExcluded(p))

\* Line 61: full_path.stat() succeeds.
Statable(p) == disk[p].exists

\* Lines 64-65.
IsAdded(p) == p \notin DOMAIN file_mtimes

\* Line 66 with >= for >.
IsModifiedOrSame(p) == p \in DOMAIN file_mtimes /\ disk[p].mtime >= file_mtimes[p]

\* Lines 66-67.
IsModified(p) == p \in DOMAIN file_mtimes /\ disk[p].mtime > file_mtimes[p]

AddedFiles(notes) ==
    SelectSeq(Candidates(notes), LAMBDA p : Statable(p) /\ IsAdded(p))

ModifiedFiles(notes) ==
    SelectSeq(Candidates(notes), LAMBDA p : Statable(p) /\ IsModified(p))

\* Line 69, for every file whose stat succeeded.
Observed(notes) ==
    LET seen == {p \in Range(Candidates(notes)) : Statable(p)} IN
    [p \in DOMAIN file_mtimes \cup seen |->
        IF p \in seen THEN disk[p].mtime ELSE file_mtimes[p]]

\* Lines 75-78: the tracked paths the listing no longer has.
DeletedFiles(notes) ==
    InOrder({p \in DOMAIN Observed(notes) : p \notin Range(notes)}, 1)

\* The exception leaves the loop and ends the coroutine.
LoopEnds(t) == {}

\* Lines 132-134: what check_and_update raised is caught in the loop, which
\* logs it and sleeps the longer time before it tests _running again.
AfterError(t) ==
    {[t EXCEPT !.pc = "up_list", !.rep.status = "error", !.sleep = ErrorSleep]}

\* IndexUpdater.stop (lines 136-138).
stop ==
    /\ running' = FALSE
    /\ UNCHANGED <<disk, clock, fts, meta, engineUp, outages, file_mtimes,
                   started, updater, tasks, done, calls, spawned, origin,
                   initialized, removed, returned, conn>>

\* get_stats returns and the pass classifies every listed note without a
\* further await (lines 40-78), then starts on the first change.
pass_classify(t) ==
    /\ t.pc = "up_stats"
    /\ IF ~engineUp
       THEN \* raised out of check_and_update
            /\ tasks' = Resume(t, AfterError(t), EmptyBag)
            /\ UNCHANGED file_mtimes
       ELSE IF total_files(fts) = 0
       THEN /\ tasks' = Resume(t, {[t EXCEPT !.pc = "up_list",
                                             !.rep.status = "no_index",
                                             !.sleep = LoopSleep]}, EmptyBag)
            /\ UNCHANGED file_mtimes
       ELSE LET added == AddedFiles(t.notes)
                modified == ModifiedFiles(t.notes)
                deleted == DeletedFiles(t.notes)
                seen == Observed(t.notes)
            IN  /\ file_mtimes' = [p \in DOMAIN seen \ Range(deleted) |-> seen[p]]
                /\ tasks' = Resume(t, Continue([t EXCEPT
                                !.walk = added \o modified,
                                !.dels = deleted,
                                !.rep.added = added,
                                !.rep.modified = modified,
                                !.rep.deleted = deleted]), EmptyBag)
    /\ UNCHANGED <<disk, clock, fts, meta, engineUp, outages, started, updater,
                   done, calls, spawned, origin,
                   initialized, removed,
                   returned, conn, running>>

----------------------------------------------------------------------------
(* rebuild_fts_index (utils/fts_search.py).                                *)

\* One statement of the table clear completes; when one raises, the task
\* ends with the exception.
rebuild_clear(t) ==
    /\ t.pc \in ClearPcs
    /\ IF ~engineUp
       THEN /\ tasks' = Resume(t, {}, EmptyBag)
            /\ UNCHANGED <<fts, meta>>
       ELSE CASE t.pc = "rb_clear_fts" ->
                   /\ fts' = EmptyFts
                   /\ tasks' = Resume(t, {[t EXCEPT !.pc = "rb_clear_meta"]}, EmptyBag)
                   /\ UNCHANGED meta
              [] t.pc = "rb_clear_meta" ->
                   /\ meta' = EmptyMeta
                   /\ tasks' = Resume(t, {[t EXCEPT !.pc = "rb_commit"]}, EmptyBag)
                   /\ UNCHANGED fts
              [] t.pc = "rb_commit" ->
                   /\ tasks' = Resume(t, {[t EXCEPT !.pc = "rb_list"]}, EmptyBag)
                   /\ UNCHANGED <<fts, meta>>
    /\ UNCHANGED <<disk, clock, engineUp, outages, file_mtimes, started, updater,
                   done, calls, spawned, origin,
                   initialized, removed,
                   returned, conn, running>>

\* The vault is listed and the walk starts on the first note not skipped.
rebuild_list(t) ==
    /\ t.pc = "rb_list"
    /\ tasks' = Resume(t, Continue([t EXCEPT !.walk = list_notes(disk)]), EmptyBag)
    /\ UNCHANGED <<disk, clock, fts, meta, engineUp, outages, file_mtimes,
                   started, updater, done, calls, spawned, origin,
                   initialized, removed,
                   returned, conn, running>>

\* rebuild_search_index (tools/fast_search.py): starts a rebuild task and
\* returns.
rebuild_search_index ==
    /\ calls.rebuilds < MaxRebuilds
    /\ CallCount < MaxCalls
    /\ InFlightCount < MaxTasks
    /\ tasks' = tasks (+) SetToBag({RebuildTask})
    /\ calls' = [calls EXCEPT !.rebuilds = @ + 1]
    /\ done' = [NoResult EXCEPT !.op = "rebuild_search_index",
                                !.status = "rebuild_started"]
    /\ UNCHANGED <<disk, clock, fts, meta, engineUp, outages, file_mtimes,
                   started, updater, spawned, origin,
                   initialized, removed,
                   returned, conn, running>>

----------------------------------------------------------------------------
(* The search facade (tools/fast_search.py) and FTSSearchIndex.search.     *)

\* The handler returns or raises: its result replaces the last one.
Result(t, status) ==
    [op |-> t.op, query |-> t.query, status |-> status,
     empty |-> t.empty /\ total_files(fts) = 0, executed |-> t.executed,
     tool |-> t.tool, field |-> t.field, value |-> t.value, limit |-> t.limit,
     ftsq |-> t.ftsq, results |-> IF status = "results" THEN t.results ELSE {},
     age |-> 0, freshness |-> NoFreshness]

\* The frame as it is after one more of its steps.
Stepped(t) == [t EXCEPT !.empty = @ /\ total_files(fts) = 0]

\* fts.search(query): _transform_query raises on a blank query and the
\* handler falls back to _simple_search; else the MATCH statement is issued.
CallSearch(t, q) ==
    IF Strip(q) = <<>>
    THEN [t EXCEPT !.pc = "se_like", !.arg = q]
    ELSE [t EXCEPT !.pc = "se_match", !.arg = q, !.ftsq = transform_query(q)]

\* str.lstrip("#")
RECURSIVE LStripHash(_)
LStripHash(s) == IF s # <<>> /\ Head(s) = "#" THEN LStripHash(Tail(s)) ELSE s

\* f'{field}:"{value}"', or the value itself when the field is content.
FieldQuery(field, value) ==
    IF field = "content" THEN value
    ELSE <<field, ":", "\"">> \o value \o <<"\"">>

\* f'"{property_name}:{value}"' (tools/search_discovery.py 623)
PropertyQuery(q) == <<"\"">> \o Tail(q) \o <<"\"">>

\* Line 71 of server.py: the flag is set before the first await.
FlagLeftUnset(flag) == flag

MarkStarted(flag) == TRUE

\* Line 149 of index_updater.py.
UpdaterMissing(u) == ~u

\* search_by_field(field, value, max_results) up to its first await, as
\* frame t with the limit in it: the frame that goes on to fts.search, or
\* none when the call raises ValueError (lines 211-220).
ValidFields == {"filename", "tags", "properties", "content"}

FieldFrame(t, field, value) ==
    [t EXCEPT !.op = "search_by_field", !.field = field, !.value = value]

ByField(t, field, value) ==
    IF /\ field \in ValidFields
       /\ validate_query(value)
       /\ t.limit >= 1
       /\ t.limit <= FieldMaxResults
    THEN {CallSearch(FieldFrame(t, field, value), FieldQuery(field, value))}
    ELSE {}

\* search_notes(query, max_results) with the default context_length, up to
\* its first await. A call that goes on has got the index store from
\* get_fts_search, which initializes it.
\*   tag:, path:      -> search_by_field, which validates the value and the
\*                       limit and calls fts.search;
\*   property:        -> search_by_property, which calls fts.search;
\*   any other query  -> validate_query and the limit test, then
\*                       start_background_index, whose flag test and set
\*                       have no await between them.
search_notes_call(q, max_results) ==
    /\ calls.searches < MaxSearches
    /\ CallCount < MaxCalls
    /\ InFlightCount < MaxTasks
    /\ calls' = [calls EXCEPT !.searches = @ + 1]
    /\ LET t == [Frame EXCEPT !.kind = "search", !.query = q,
                              !.tool = "search_notes", !.limit = max_results,
                              !.empty = (total_files(fts) = 0)]
           byField(field, value) ==
               IF ByField(t, field, value) # {}
               THEN /\ tasks' = tasks (+) SetToBag(ByField(t, field, value))
                    /\ UNCHANGED done
               ELSE /\ done' = Result(FieldFrame(t, field, value), "raised")
                    /\ UNCHANGED tasks
       IN  IF q # <<>> /\ Head(q) = "tag:"
           THEN byField("tags", LStripHash(Tail(q))) /\ UNCHANGED started
           ELSE IF q # <<>> /\ Head(q) = "path:"
           THEN byField("filename", Tail(q)) /\ UNCHANGED started
           ELSE IF q # <<>> /\ Head(q) = "property:"
           THEN /\ tasks' = tasks (+) SetToBag({CallSearch(
                               [t EXCEPT !.op = "search_by_property"],
                               PropertyQuery(q))})
                /\ UNCHANGED <<done, started>>
           ELSE IF \/ ~validate_query(q)
                   \/ max_results < 1
                   \/ max_results > SearchMaxResults
           THEN /\ done' = Result([t EXCEPT !.op = "search_notes"], "raised")
                /\ UNCHANGED <<tasks, started>>
           ELSE /\ tasks' = tasks (+) SetToBag({[t EXCEPT
                               !.op = "search_notes",
                               !.pc = IF started THEN "sn_stats" ELSE "sbi_stats"]})
                /\ started' = MarkStarted(started)
                /\ UNCHANGED done
    /\ initialized' = (initialized \/ tasks' # tasks)
    /\ conn' = IF initialized' THEN Connected ELSE conn
    /\ UNCHANGED running
    /\ UNCHANGED <<disk, clock, fts, meta, engineUp, outages, file_mtimes,
                   updater, spawned, origin, removed, returned>>

\* search_notes(query) with the default max_results.
search_notes(q) == search_notes_call(q, DefaultMaxResults)

\* search_by_field(field, value, max_results) called as a tool.
search_by_field(field, value, max_results) ==
    /\ calls.searches < MaxSearches
    /\ CallCount < MaxCalls
    /\ InFlightCount < MaxTasks
    /\ calls' = [calls EXCEPT !.searches = @ + 1]
    /\ LET t == [Frame EXCEPT !.kind = "search", !.query = value,
                              !.tool = "search_by_field", !.limit = max_results,
                              !.empty = (total_files(fts) = 0)]
       IN  IF ByField(t, field, value) # {}
           THEN /\ tasks' = tasks (+) SetToBag(ByField(t, field, value))
                /\ UNCHANGED done
           ELSE /\ done' = Result(FieldFrame(t, field, value), "raised")
                /\ UNCHANGED tasks
    /\ initialized' = (initialized \/ tasks' # tasks)
    /\ conn' = IF initialized' THEN Connected ELSE conn
    /\ UNCHANGED running
    /\ UNCHANGED <<disk, clock, fts, meta, engineUp, outages, file_mtimes,
                   started, updater, spawned, origin, removed, returned>>

\* start_background_index after get_stats has returned (server.py 77-91):
\* an empty index starts the rebuild task, then start_index_updater creates
\* the updater unless there is one. An exception is caught and logged.
\* search_notes then asks for the statistics itself.
start_background_index(t) ==
    /\ t.pc = "sbi_stats"
    /\ LET rebuild == engineUp /\ total_files(fts) = 0
           loop == engineUp /\ UpdaterMissing(updater)
       IN  /\ tasks' = Resume(t, {[Stepped(t) EXCEPT !.pc = "sn_stats"]},
                   (IF rebuild THEN SetToBag({RebuildTask}) ELSE EmptyBag)
                   (+) (IF loop THEN SetToBag({UpdaterTask}) ELSE EmptyBag))
           /\ updater' = (updater \/ loop)
           /\ spawned' = [rebuilds |-> spawned.rebuilds + (IF rebuild THEN 1 ELSE 0),
                          updaters |-> spawned.updaters + (IF loop THEN 1 ELSE 0)]
           /\ running' = (running \/ loop)
    /\ UNCHANGED <<disk, clock, fts, meta, engineUp, outages, file_mtimes,
                   started, done, calls, origin,
                   initialized, removed,
                   returned, conn>>

\* search_notes after its own get_stats (lines 120-146): an empty index is
\* answered with the not-ready result, else the query goes to fts.search.
search_stats(t) ==
    /\ t.pc = "sn_stats"
    /\ IF ~engineUp
       THEN /\ done' = Result(t, "raised")
            /\ tasks' = Resume(t, {}, EmptyBag)
       ELSE IF total_files(fts) = 0
       THEN /\ done' = Result(t, "index_not_ready")
            /\ tasks' = Resume(t, {}, EmptyBag)
       ELSE /\ tasks' = Resume(t, {CallSearch(Stepped(t), t.query)}, EmptyBag)
            /\ UNCHANGED done
    /\ UNCHANGED <<disk, clock, fts, meta, engineUp, outages, file_mtimes,
                   started, updater, calls, spawned, origin,
                   initialized, removed,
                   returned, conn, running>>

\* fts.search has returned its list to the facade: search_notes asks for the
\* statistics once more, the other callers return.
Returned(t) ==
    IF t.op = "search_notes" THEN [t EXCEPT !.pc = "sn_stats2"] ELSE t

\* The MATCH statement runs. When the engine rejects it, search logs and
\* calls _simple_search, which issues its LIKE statement.
search_match(t) ==
    /\ t.pc = "se_match"
    /\ LET u == [Stepped(t) EXCEPT !.executed = TRUE,
                                   !.results = Matches(fts, t.ftsq)] IN
       IF engineUp /\ EngineAccepts(t.ftsq)
       THEN IF u.op = "search_notes"
            THEN /\ tasks' = Resume(t, {Returned(u)}, EmptyBag)
                 /\ UNCHANGED done
            ELSE /\ done' = Result(u, "results")
                 /\ tasks' = Resume(t, {}, EmptyBag)
       ELSE /\ tasks' = Resume(t, {[u EXCEPT !.pc = "se_like", !.results = {}]},
                           EmptyBag)
            /\ UNCHANGED done
    /\ UNCHANGED <<disk, clock, fts, meta, engineUp, outages, file_mtimes,
                   started, updater, calls, spawned, origin,
                   initialized, removed,
                   returned, conn, running>>

\* The LIKE statement of _simple_search runs. What it raises leaves search:
\* search_notes and search_by_field raise ValueError, search_by_property
\* scans the vault instead.
search_like(t) ==
    /\ t.pc = "se_like"
    /\ LET u == [Stepped(t) EXCEPT !.executed = TRUE,
                                   !.results = Likes(fts, t.arg)] IN
       IF engineUp
       THEN IF u.op = "search_notes"
            THEN /\ tasks' = Resume(t, {Returned(u)}, EmptyBag)
                 /\ UNCHANGED done
            ELSE /\ done' = Result(u, "results")
                 /\ tasks' = Resume(t, {}, EmptyBag)
       ELSE /\ done' = Result(u, IF u.op = "search_by_property"
                                 THEN "results" ELSE "raised")
            /\ tasks' = Resume(t, {}, EmptyBag)
    /\ UNCHANGED <<disk, clock, fts, meta, engineUp, outages, file_mtimes,
                   started, updater, calls, spawned, origin,
                   initialized, removed,
                   returned, conn, running>>

\* search_notes after its second get_stats (lines 149-166).
search_return(t) ==
    /\ t.pc = "sn_stats2"
    /\ done' = Result(t, IF engineUp THEN "results" ELSE "raised")
    /\ tasks' = Resume(t, {}, EmptyBag)
    /\ UNCHANGED <<disk, clock, fts, meta, engineUp, outages, file_mtimes,
                   started, updater, calls, spawned, origin,
                   initialized, removed,
                   returned, conn, running>>

----------------------------------------------------------------------------
(* The whole server.                                                       *)

Next ==
    \/ \E p \in DOMAIN disk, c \in Contents : create_note(p, c)
    \/ \E p \in DOMAIN disk, c \in Contents : update_note(p, c)
    \/ \E p \in DOMAIN disk : delete_note(p)
    \/ \E q \in FacadeQueries : search_notes(q)
    \/ rebuild_search_index
    \/ \E t \in InFlight : refresh_stats(t)
    \/ \E t \in InFlight : read_note(t)
    \/ \E t \in InFlight : index_file(t)
    \/ \E t \in InFlight : remove_file(t)
    \/ \E t \in InFlight : pass_list(t)
    \/ \E t \in InFlight : pass_classify(t)
    \/ \E t \in InFlight : rebuild_clear(t)
    \/ \E t \in InFlight : rebuild_list(t)
    \/ \E t \in InFlight : start_background_index(t)
    \/ \E t \in InFlight : search_stats(t)
    \/ \E t \in InFlight : search_match(t)
    \/ \E t \in InFlight : search_like(t)
    \/ \E t \in InFlight : search_return(t)

Spec == Init /\ [][Next]_vars

----------------------------------------------------------------------------
(* One reconciliation pass on its own: check_and_update run from any state *)
(* of the vault, the index and _file_mtimes, with nothing else in flight.  *)
(* Every live note was last written at time MaxWrites; _file_mtimes holds  *)
(* that time or an earlier one for any of the paths.                       *)

PassPaths == {PathA, PathB, PathC, PathTrash}

PassInit ==
    /\ \E live \in SUBSET {PathA, PathB, PathC} :
          disk = [p \in PassPaths |->
                    IF p \in live \/ p = PathTrash
                    THEN [exists |-> TRUE, content |-> Content2, mtime |-> MaxWrites]
                    ELSE NoFile]
    /\ clock = MaxWrites
    /\ \E S \in SUBSET {PathA, PathB, PathC} :
          /\ fts = IndexOf(S).fts
          /\ meta = IndexOf(S).meta
    /\ \E T \in SUBSET {PathA, PathB, PathC} :
          \E f \in [T -> 1..MaxWrites] : file_mtimes = f
    /\ engineUp = TRUE
    /\ outages = 0
    /\ started = TRUE
    /\ updater = TRUE
    /\ tasks = SetToBag({UpdaterTask})
    /\ done = NoResult
    /\ calls = [writes |-> 0, searches |-> 0, rebuilds |-> 0]
    /\ spawned = [rebuilds |-> 0, updaters |-> 1]
    /\ origin = [indexed |-> DOMAIN meta, file_mtimes |-> file_mtimes]
    /\ initialized = TRUE
    /\ removed = {}
    /\ returned = NoneReturned
    /\ conn = IF initialized THEN Connected ELSE NotConnected
    /\ running = (\E t \in BagToSet(tasks) : t.kind = "updater")

PassNext ==
    \/ \E t \in InFlight : t.rep.status = "none" /\ pass_list(t)
    \/ \E t \in InFlight : pass_classify(t)
    \/ \E t \in InFlight : read_note(t)
    \/ \E t \in InFlight : index_file(t)
    \/ \E t \in InFlight : remove_file(t)

PassSpec == PassInit /\ [][PassNext]_vars

----------------------------------------------------------------------------
(* The running synchronizer: the updater loop is running, notes are        *)
(* created, overwritten and deleted, and every coroutine that can run is   *)
(* run by the event loop in the end.                                       *)

SyncInit ==
    /\ disk = InitDisk
    /\ clock = 0
    /\ \E S \in SUBSET {PathA} :
          /\ fts = IndexOf(S).fts
          /\ meta = IndexOf(S).meta
    /\ engineUp = TRUE
    /\ outages = 0
    /\ file_mtimes = [p \in {} |-> 0]
    /\ started = TRUE
    /\ updater = TRUE
    /\ tasks = SetToBag({UpdaterTask})
    /\ done = NoResult
    /\ calls = [writes |-> 0, searches |-> 0, rebuilds |-> 0]
    /\ spawned = [rebuilds |-> 0, updaters |-> 1]
    /\ origin = [indexed |-> DOMAIN meta, file_mtimes |-> file_mtimes]
    /\ initialized = TRUE
    /\ removed = {}
    /\ returned = NoneReturned
    /\ conn = IF initialized THEN Connected ELSE NotConnected
    /\ running = (\E t \in BagToSet(tasks) : t.kind = "updater")

\* One step of coroutine t.
Step(t) ==
    \/ refresh_stats(t)
    \/ read_note(t)
    \/ index_file(t)
    \/ remove_file(t)
    \/ pass_list(t)
    \/ pass_classify(t)

SyncNext ==
    \/ \E p \in DOMAIN disk, c \in Contents : create_note(p, c)
    \/ \E p \in DOMAIN disk, c \in Contents : update_note(p, c)
    \/ \E p \in DOMAIN disk : delete_note(p)
    \/ \E t \in InFlight : Step(t)

\* asyncio runs every coroutine that is ready: the updater loop and the
\* refresh tasks each keep making steps.
SyncFairness ==
    /\ WF_vars(\E t \in InFlight : t.kind = "updater" /\ Step(t))
    /\ WF_vars(\E t \in InFlight : t.kind = "refresh" /\ Step(t))

SyncSpec == SyncInit /\ [][SyncNext]_vars /\ SyncFairness

----------------------------------------------------------------------------
(* The index store called directly, with an engine that can become         *)
(* unavailable (the index file is inaccessible) and recover.               *)

QueryPadded == <<" ", "alpha", " ">>
QueryTabbed == <<"beta", "\t", "gamma">>
QueryQuoted == <<"\"", "beta", " ", "gamma", "\"">>
QueryLowerAnd == <<"beta", " ", "and", " ", "gamma">>
QueryUpperOr == <<"beta", " ", "OR", " ", "gamma">>
QueryMixedAnd == <<"beta", " ", "And", " ", "gamma">>

StoreQueries == {QueryPlain, QueryEmpty, QueryOpenQuote, QueryTwoWords,
                 QueryPadded, QueryTabbed, QueryQuoted, QueryLowerAnd,
                 QueryUpperOr, QueryMixedAnd}

\* FTSSearchIndex.search(query), up to its first await: it initializes the
\* store when that has not been done.
search(q) ==
    /\ calls.searches < MaxSearches
    /\ calls' = [calls EXCEPT !.searches = @ + 1]
    /\ tasks' = tasks (+) SetToBag({CallSearch(
                    [Frame EXCEPT !.kind = "search", !.op = "search", !.query = q,
                                  !.tool = "search",
                                  !.empty = (total_files(fts) = 0)], q)})
    /\ initialized' = TRUE
    /\ conn' = Connected
    /\ UNCHANGED running
    /\ UNCHANGED <<disk, clock, fts, meta, engineUp, outages, file_mtimes,
                   started, updater, done, spawned, origin, removed, returned>>

EngineFails ==
    /\ engineUp
    /\ outages < MaxOutages
    /\ engineUp' = FALSE
    /\ outages' = outages + 1
    /\ UNCHANGED <<disk, clock, fts, meta, file_mtimes, started, updater, tasks,
                   done, calls, spawned, origin,
                   initialized, removed,
                   returned, conn, running>>

EngineRecovers ==
    /\ ~engineUp
    /\ engineUp' = TRUE
    /\ UNCHANGED <<disk, clock, fts, meta, outages, file_mtimes, started, updater,
                   tasks, done, calls, spawned, origin,
                   initialized, removed,
                   returned, conn, running>>

StoreInit ==
    /\ disk = [p \in {PathA, PathB} |->
                 [exists |-> TRUE, content |-> Content1, mtime |-> 0]]
    /\ clock = 0
    /\ \E S \in SUBSET {PathA, PathB} :
          /\ fts = IndexOf(S).fts
          /\ meta = IndexOf(S).meta
    /\ engineUp = TRUE
    /\ outages = 0
    /\ file_mtimes = [p \in {} |-> 0]
    /\ started = FALSE
    /\ updater = FALSE
    /\ tasks = EmptyBag
    /\ done = NoResult
    /\ calls = [writes |-> 0, searches |-> 0, rebuilds |-> 0]
    /\ spawned = [rebuilds |-> 0, updaters |-> 0]
    /\ origin = [indexed |-> DOMAIN meta, file_mtimes |-> file_mtimes]
    /\ initialized = TRUE
    /\ removed = {}
    /\ returned = NoneReturned
    /\ conn = IF initialized THEN Connected ELSE NotConnected
    /\ running = (\E t \in BagToSet(tasks) : t.kind = "updater")

StoreNext ==
    \/ \E q \in StoreQueries : search(q)
    \/ \E t \in InFlight : search_match(t)
    \/ \E t \in InFlight : search_like(t)
    \/ EngineFails
    \/ EngineRecovers

StoreSpec == StoreInit /\ [][StoreNext]_vars

----------------------------------------------------------------------------
(* get_search_stats (tools/fast_search.py) and FTSSearchIndex.get_stats.   *)

Minute == 60
Hour == 3600
Day == 86400

\* time.time() when the newest document of the index was indexed.
IndexedAt == 1700000000

\* The seconds between that time and the time.time() of get_stats.
Elapsed == {0, 1, Minute - 1, Minute, Minute + 1, Hour - 1, Hour, Hour + 1,
            Day - 1, Day, Day + 1}

\* MAX(last_indexed) of notes_metadata: NULL, read as 0 (line 276), when
\* the table is empty.
newest_index(m) == IF DOMAIN m = {} THEN 0 ELSE IndexedAt

\* stats["index_age_seconds"] at time now
index_age_seconds(m, now) == now - newest_index(m)

\* The label with every bound taken as inclusive.
FreshnessInclusive(age) ==
    IF age <= Minute THEN [label |-> "very fresh", count |-> 0]
    ELSE IF age <= Hour THEN [label |-> "fresh", count |-> age \div Minute]
    ELSE IF age <= Day THEN [label |-> "moderate", count |-> age \div Hour]
    ELSE [label |-> "stale", count |-> age \div Day]

\* Lines 336-343: the label and the number put into it.
Freshness(age) ==
    IF age < Minute THEN [label |-> "very fresh", count |-> 0]
    ELSE IF age < Hour THEN [label |-> "fresh", count |-> age \div Minute]
    ELSE IF age < Day THEN [label |-> "moderate", count |-> age \div Hour]
    ELSE [label |-> "stale", count |-> age \div Day]

\* get_search_stats() up to its first await: it gets the store and asks for
\* its statistics.
get_search_stats ==
    /\ calls.searches < MaxSearches
    /\ CallCount < MaxCalls
    /\ InFlightCount < MaxTasks
    /\ calls' = [calls EXCEPT !.searches = @ + 1]
    /\ tasks' = tasks (+) SetToBag({[Frame EXCEPT
                    !.kind = "search", !.op = "get_search_stats",
                    !.tool = "get_search_stats", !.pc = "gs_stats"]})
    /\ initialized' = TRUE
    /\ conn' = Connected
    /\ UNCHANGED running
    /\ UNCHANGED <<disk, clock, fts, meta, engineUp, outages, file_mtimes,
                   started, updater, done, spawned, origin, removed, returned>>

\* get_stats returns at time now (or raises) and get_search_stats returns
\* its dictionary (lines 335-365).
stats_return(t, now) ==
    /\ t.pc = "gs_stats"
    /\ done' = IF ~engineUp
               THEN [NoResult EXCEPT !.op = t.op, !.tool = t.tool,
                                     !.status = "error"]
               ELSE [NoResult EXCEPT
                        !.op = t.op, !.tool = t.tool,
                        !.empty = (total_files(fts) = 0),
                        !.age = index_age_seconds(meta, now),
                        !.freshness = Freshness(index_age_seconds(meta, now)),
                        !.status = IF total_files(fts) > 0 THEN "ready"
                                   ELSE "empty"]
    /\ tasks' = Resume(t, {}, EmptyBag)
    /\ UNCHANGED <<disk, clock, fts, meta, engineUp, outages, file_mtimes,
                   started, updater, calls, spawned, origin,
                   initialized, removed,
                   returned, conn, running>>

----------------------------------------------------------------------------
(* The search tools on an index that does not change: the first search of  *)
(* the process has been answered and the updater loop is asleep.           *)

QueryBlank == <<" ">>
QueryTooLong == <<LongWord, "a", "b">>
QueryLongest == <<LongWord, "a">>
QueryMixedCase == <<"Drop">>
QueryInsideWord == <<"updated">>
QuerySpansAtoms == <<"up", "date">>
QueryTagUnsafe == <<"tag:", "alpha", ";">>
QueryTagNoValue == <<"tag:">>
QueryPathDaily == <<"path:", "Daily", "/">>
QueryPropertyUnsafe == <<"property:", "status", ":", "drop">>

QueryComment == <<"alpha", "--">>
QueryDashed == <<"alpha", "-", "beta">>
QueryDelete == <<"delete">>
QueryInsert == <<"insert">>

FacadeInputs ==
    {QueryPlain, QueryTwoWords, QueryEmpty, QueryBlank, QueryUnsafe,
     QueryTooLong, QueryLongest, QueryMixedCase, QueryInsideWord,
     QuerySpansAtoms, QueryComment, QueryDashed, QueryDelete, QueryInsert,
     QueryDotted, QueryTag, QueryTagUnsafe, QueryTagNoValue,
     QueryPath, QueryPathDaily, QueryProperty, QueryPropertyUnsafe}

FieldInputs == {"filename", "tags", "properties", "content", "title"}
ValueInputs == {<<"alpha">>, <<"my", " ", "note">>, <<"today">>, <<>>,
                <<"alpha", ";">>}

Limits == {0, 1, FieldMaxResults, FieldMaxResults + 1, SearchMaxResults,
           SearchMaxResults + 1}

FacadePaths == {PathA, PathInDaily, PathNamedDaily}

FacadeInit ==
    /\ disk = [p \in FacadePaths |->
                 [exists |-> TRUE, content |-> Content1, mtime |-> 0]]
    /\ clock = 0
    /\ \E S \in SUBSET FacadePaths :
          /\ fts = IndexOf(S).fts
          /\ meta = IndexOf(S).meta
    /\ engineUp = TRUE
    /\ outages = 0
    /\ file_mtimes = [p \in {} |-> 0]
    /\ started = TRUE
    /\ updater = TRUE
    /\ tasks = SetToBag({UpdaterTask})
    /\ done = NoResult
    /\ calls = [writes |-> 0, searches |-> MaxSearches - 1, rebuilds |-> 0]
    /\ spawned = [rebuilds |-> 0, updaters |-> 1]
    /\ origin = [indexed |-> DOMAIN meta, file_mtimes |-> file_mtimes]
    /\ initialized = TRUE
    /\ removed = {}
    /\ returned = NoneReturned
    /\ conn = IF initialized THEN Connected ELSE NotConnected
    /\ running = (\E t \in BagToSet(tasks) : t.kind = "updater")

FacadeNext ==
    \/ \E q \in FacadeInputs, n \in Limits : search_notes_call(q, n)
    \/ \E f \in FieldInputs, v \in ValueInputs, n \in Limits : search_by_field(f, v, n)
    \/ get_search_stats
    \/ \E t \in InFlight, e \in Elapsed : stats_return(t, IndexedAt + e)
    \/ \E t \in InFlight : search_stats(t)
    \/ \E t \in InFlight : search_match(t)
    \/ \E t \in InFlight : search_like(t)
    \/ \E t \in InFlight : search_return(t)

FacadeSpec == FacadeInit /\ [][FacadeNext]_vars

----------------------------------------------------------------------------
(* The index store called directly: index_file, remove_file and search on  *)
(* a store object made for an index file that exists, before or after its  *)
(* initialize has run, and the field search of the facade.                 *)

\* index_file(filepath, content, metadata) up to its first statement: it
\* initializes the store when that has not been done (lines 74-75).
index_document(p, c) ==
    /\ calls.writes < MaxWrites
    /\ InFlightCount < MaxTasks
    /\ calls' = [calls EXCEPT !.writes = @ + 1]
    /\ tasks' = tasks (+) SetToBag({[Frame EXCEPT
                    !.kind = "call", !.op = "index_file", !.tool = "index_file",
                    !.pc = "ix_delete", !.path = p, !.content = c]})
    /\ initialized' = TRUE
    /\ conn' = Connected
    /\ UNCHANGED running
    /\ removed' = removed \ {p}
    /\ returned' = Overlapping(p)
    /\ UNCHANGED <<disk, clock, fts, meta, engineUp, outages, file_mtimes,
                   started, updater, done, spawned, origin>>

\* remove_file(filepath) up to its first statement: it returns at once when
\* the store is not initialized (lines 123-124).
remove_document(p) ==
    /\ calls.writes < MaxWrites
    /\ InFlightCount < MaxTasks
    /\ calls' = [calls EXCEPT !.writes = @ + 1]
    /\ IF ~initialized
       THEN /\ removed' = removed \cup {p}
            /\ UNCHANGED tasks
       ELSE /\ tasks' = tasks (+) SetToBag({[Frame EXCEPT
                           !.kind = "call", !.op = "remove_file",
                           !.tool = "remove_file", !.pc = "rm_fts", !.path = p]})
            /\ UNCHANGED removed
    /\ returned' = Overlapping(p)
    /\ UNCHANGED <<disk, clock, fts, meta, engineUp, outages, file_mtimes,
                   started, updater, done, spawned, origin, initialized, conn, running>>

IndexPaths == {PathA, PathSpaced}

\* What the notes the index holds at first were indexed with.
InitialContent(p) == IF p = PathA THEN Content1 ELSE Content2
IndexQueries == {QueryPlain, <<"beta">>, QueryEmpty}

IndexInit ==
    /\ disk = [p \in IndexPaths |->
                 [exists |-> TRUE, content |-> Content1, mtime |-> 0]]
    /\ clock = 0
    /\ \E S \in SUBSET IndexPaths :
          LET f == [p \in S |-> InitialContent(p)] IN
          /\ fts = IndexWith(f).fts
          /\ meta = IndexWith(f).meta
    /\ engineUp = TRUE
    /\ outages = 0
    /\ file_mtimes = [p \in {} |-> 0]
    /\ started = FALSE
    /\ updater = FALSE
    /\ tasks = EmptyBag
    /\ done = NoResult
    /\ calls = [writes |-> 0, searches |-> 0, rebuilds |-> 0]
    /\ spawned = [rebuilds |-> 0, updaters |-> 0]
    /\ origin = [indexed |-> DOMAIN meta, file_mtimes |-> file_mtimes]
    /\ initialized \in BOOLEAN
    /\ removed = {}
    /\ returned = NoneReturned
    /\ conn = IF initialized THEN Connected ELSE NotConnected
    /\ running = (\E t \in BagToSet(tasks) : t.kind = "updater")

IndexNext ==
    \/ \E p \in IndexPaths, c \in Contents : index_document(p, c)
    \/ \E p \in IndexPaths : remove_document(p)
    \/ \E q \in IndexQueries : search(q)
    \/ \E p \in IndexPaths : search_by_field("filename", Stem(p), DefaultMaxResults)
    \/ \E t \in InFlight : index_file(t)
    \/ \E t \in InFlight : remove_file(t)
    \/ \E t \in InFlight : search_match(t)
    \/ \E t \in InFlight : search_like(t)

IndexSpec == IndexInit /\ [][IndexNext]_vars

----------------------------------------------------------------------------
(* One rebuild on its own: rebuild_fts_index run on a vault nothing else   *)
(* writes to, over the index a previous run left, with an engine that can  *)
(* become unavailable at any statement and recover.                        *)

RebuildPaths == {PathA, PathB, PathTrash}

RebuildInit ==
    /\ disk = [p \in RebuildPaths |->
                 [exists |-> TRUE, content |-> Content1, mtime |-> 0]]
    /\ clock = 0
    /\ \E S \in SUBSET {PathA, PathB} :
          /\ fts = IndexOf(S).fts
          /\ meta = IndexOf(S).meta
    /\ engineUp = TRUE
    /\ outages = 0
    /\ file_mtimes = [p \in {} |-> 0]
    /\ started = TRUE
    /\ updater = FALSE
    /\ tasks = SetToBag({RebuildTask})
    /\ done = NoResult
    /\ calls = [writes |-> 0, searches |-> 0, rebuilds |-> 1]
    /\ spawned = [rebuilds |-> 1, updaters |-> 0]
    /\ origin = [indexed |-> DOMAIN meta, file_mtimes |-> file_mtimes]
    /\ initialized = TRUE
    /\ removed = {}
    /\ returned = NoneReturned
    /\ conn = Connected
    /\ running = (\E t \in BagToSet(tasks) : t.kind = "updater")

RebuildNext ==
    \/ EngineFails
    \/ EngineRecovers
    \/ \E t \in InFlight : rebuild_clear(t)
    \/ \E t \in InFlight : rebuild_list(t)
    \/ \E t \in InFlight : read_note(t)
    \/ \E t \in InFlight : index_file(t)

RebuildSpec == RebuildInit /\ [][RebuildNext]_vars

----------------------------------------------------------------------------
(* The first calls made on the store of a process that has just started:   *)
(* each gets the store from get_fts_search and calls one of its methods;   *)
(* initialize is taken one await at a time (utils/fts_search.py 23-70).    *)

FirstUseOps == {"search", "index_file", "get_stats"}

CreatePcs == <<"in_fts", "in_meta", "in_index">>

\* The pc after the CREATE statement at pc, and the object it creates.
AfterCreate(pc) ==
    CASE pc = "in_fts" -> "in_meta"
      [] pc = "in_meta" -> "in_index"
      [] pc = "in_index" -> "in_commit"

Created(pc) ==
    CASE pc = "in_fts" -> "notes_fts"
      [] pc = "in_meta" -> "notes_metadata"
      [] pc = "in_index" -> "idx_notes_mtime"

\* fts = await get_fts_search(); await fts.<op>(...), up to the first await.
\* get_fts_search creates the store object and awaits its initialize when
\* there is no object; with an object it returns it at once, and the method
\* awaits initialize when _initialized is not set. Either way initialize
\* tests _initialized (line 25) and goes on to aiosqlite.connect.
first_use(op) ==
    /\ calls.searches < MaxSearches
    /\ InFlightCount < MaxTasks
    /\ calls' = [calls EXCEPT !.searches = @ + 1]
    /\ tasks' = tasks (+) SetToBag({[Frame EXCEPT
                    !.kind = "first_use", !.op = op, !.tool = op,
                    !.pc = IF initialized THEN "in_query" ELSE "in_connect"]})
    /\ UNCHANGED <<disk, clock, fts, meta, engineUp, outages, file_mtimes,
                   started, updater, done, spawned, origin,
                   initialized, removed,
                   returned, conn, running>>

\* aiosqlite.connect returns and its handle is stored in self.db (line 28).
initialize_connect(t) ==
    /\ t.pc = "in_connect"
    /\ conn' = [conn EXCEPT !.opened = @ + 1, !.db = conn.opened + 1]
    /\ UNCHANGED running
    /\ tasks' = Resume(t, {[t EXCEPT !.pc = "in_fts"]}, EmptyBag)
    /\ UNCHANGED <<disk, clock, fts, meta, engineUp, outages, file_mtimes,
                   started, updater, done, calls, spawned, origin,
                   initialized, removed, returned>>

\* One CREATE ... IF NOT EXISTS statement of _create_fts_tables completes on
\* the handle self.db holds now.
initialize_create(t) ==
    /\ t.pc \in Range(CreatePcs)
    /\ conn' = [conn EXCEPT !.schema = @ \cup {Created(t.pc)}]
    /\ UNCHANGED running
    /\ tasks' = Resume(t, {[t EXCEPT !.pc = AfterCreate(t.pc)]}, EmptyBag)
    /\ UNCHANGED <<disk, clock, fts, meta, engineUp, outages, file_mtimes,
                   started, updater, done, calls, spawned, origin,
                   initialized, removed, returned>>

\* The commit of _create_fts_tables returns; initialize sets _initialized
\* (line 30) and returns, and the method issues its first statement.
initialize_commit(t) ==
    /\ t.pc = "in_commit"
    /\ initialized' = TRUE
    /\ tasks' = Resume(t, {[t EXCEPT !.pc = "in_query"]}, EmptyBag)
    /\ UNCHANGED <<disk, clock, fts, meta, engineUp, outages, file_mtimes,
                   started, updater, done, calls, spawned, origin,
                   removed, returned, conn, running>>

\* The first statement of the method completes on self.db.
first_query(t) ==
    /\ t.pc = "in_query"
    /\ tasks' = Resume(t, {}, EmptyBag)
    /\ UNCHANGED <<disk, clock, fts, meta, engineUp, outages, file_mtimes,
                   started, updater, done, calls, spawned, origin,
                   initialized, removed,
                   returned, conn, running>>

\* The process has started: there is no store object; the index file is
\* new, or a previous run left it with its schema and some documents.
FirstUseInit ==
    /\ disk = [p \in {PathA, PathB} |->
                 [exists |-> TRUE, content |-> Content1, mtime |-> 0]]
    /\ clock = 0
    /\ \E S \in SUBSET {PathA, PathB} :
          /\ fts = IndexOf(S).fts
          /\ meta = IndexOf(S).meta
    /\ engineUp = TRUE
    /\ outages = 0
    /\ file_mtimes = [p \in {} |-> 0]
    /\ started = FALSE
    /\ updater = FALSE
    /\ tasks = EmptyBag
    /\ done = NoResult
    /\ calls = [writes |-> 0, searches |-> 0, rebuilds |-> 0]
    /\ spawned = [rebuilds |-> 0, updaters |-> 0]
    /\ origin = [indexed |-> DOMAIN meta, file_mtimes |-> file_mtimes]
    /\ initialized = FALSE
    /\ removed = {}
    /\ returned = NoneReturned
    /\ \E objects \in {{}, Range(SchemaObjects)} :
          /\ objects = {} => DOMAIN meta = {}
          /\ conn = [NotConnected EXCEPT !.schema = objects]
          /\ running = (\E t \in BagToSet(tasks) : t.kind = "updater")

FirstUseNext ==
    \/ \E op \in FirstUseOps : first_use(op)
    \/ \E t \in InFlight : initialize_connect(t)
    \/ \E t \in InFlight : initialize_create(t)
    \/ \E t \in InFlight : initialize_commit(t)
    \/ \E t \in InFlight : first_query(t)

FirstUseSpec == FirstUseInit /\ [][FirstUseNext]_vars

----------------------------------------------------------------------------
(* The updater loop on its own: the loop of start_auto_update runs on an   *)
(* index built earlier, the engine may become unavailable for a while,     *)
(* notes may be deleted, and stop() may be called.                         *)

LoopPaths == {PathA, PathB, PathTrash}

LoopInit ==
    /\ disk = [p \in LoopPaths |-> [exists |-> TRUE, content |-> Content1, mtime |-> 0]]
    /\ clock = 0
    /\ \E S \in SUBSET {PathA, PathB} :
          /\ fts = IndexOf(S).fts
          /\ meta = IndexOf(S).meta
    /\ engineUp = TRUE
    /\ outages = 0
    /\ file_mtimes = [p \in {} |-> 0]
    /\ started = TRUE
    /\ updater = TRUE
    /\ tasks = SetToBag({UpdaterTask})
    /\ done = NoResult
    /\ calls = [writes |-> 0, searches |-> 0, rebuilds |-> 0]
    /\ spawned = [rebuilds |-> 0, updaters |-> 1]
    /\ origin = [indexed |-> DOMAIN meta, file_mtimes |-> file_mtimes]
    /\ initialized = TRUE
    /\ removed = {}
    /\ returned = NoneReturned
    /\ conn = Connected
    /\ running = TRUE

\* One step of the loop of coroutine t.
LoopStep(t) ==
    \/ pass_list(t)
    \/ pass_classify(t)
    \/ read_note(t)
    \/ index_file(t)
    \/ remove_file(t)

LoopNext ==
    \/ \E p \in {PathA, PathB} : delete_note(p)
    \/ EngineFails
    \/ EngineRecovers
    \/ stop
    \/ \E t \in InFlight : LoopStep(t)

\* asyncio resumes the loop when its sleep is over and when the statement it
\* awaits has completed or failed; an outage of the engine ends.
LoopFairness ==
    /\ WF_vars(\E t \in InFlight : LoopStep(t))
    /\ WF_vars(EngineRecovers)

LoopSpec == LoopInit /\ [][LoopNext]_vars /\ LoopFairness

----------------------------------------------------------------------------
(* index_file on a connection whose statements can fail: calls made on the *)
(* index store itself, one statement at a time, with outages of the engine. *)

FaultInit ==
    /\ disk = [p \in IndexPaths |->
                 [exists |-> TRUE, content |-> Content1, mtime |-> 0]]
    /\ clock = 0
    /\ \E S \in SUBSET IndexPaths :
          LET f == [p \in S |-> InitialContent(p)] IN
          /\ fts = IndexWith(f).fts
          /\ meta = IndexWith(f).meta
    /\ engineUp = TRUE
    /\ outages = 0
    /\ file_mtimes = [p \in {} |-> 0]
    /\ started = FALSE
    /\ updater = FALSE
    /\ tasks = EmptyBag
    /\ done = NoResult
    /\ calls = [writes |-> 0, searches |-> 0, rebuilds |-> 0]
    /\ spawned = [rebuilds |-> 0, updaters |-> 0]
    /\ origin = [indexed |-> DOMAIN meta, file_mtimes |-> file_mtimes]
    /\ initialized = TRUE
    /\ removed = {}
    /\ returned = NoneReturned
    /\ conn = Connected
    /\ running = FALSE

FaultNext ==
    \/ \E p \in IndexPaths, c \in Contents : index_document(p, c)
    \/ \E t \in InFlight : index_file(t)
    \/ EngineFails
    \/ EngineRecovers

FaultSpec == FaultInit /\ [][FaultNext]_vars

----------------------------------------------------------------------------
(* The claims.                                                             *)

\* A path under .trash/ or .obsidian/, at the root or nested, with either
\* separator.
UnderReservedSubtree(p) ==
    \E i \in 1..(Len(p) - 1) :
        /\ p[i] \in {".trash", ".obsidian"}
        /\ i = 1 \/ p[i - 1] \in {"/", "\\"}
        /\ p[i + 1] \in {"/", "\\"}

Frames(kind) == [t \in {u \in InFlight : u.kind = kind} |-> tasks[t]]

SearchOps == {"search_notes", "search_by_field", "search_by_property"}

\* C1: in every reachable state the document table holds at most one row per
\* filepath, whatever the interleaving of the periodic pass, the refreshes
\* and the rebuilds.
C1_OneRowPerPath == \A p \in DOMAIN disk : RowsFor(p) <= 1

\* C2: whenever no index_file, remove_file or table clear is in flight, a
\* path has a metadata row if and only if it has a document row.
C2_TablesPaired ==
    (\A t \in InFlight : ~Mutating(t)) =>
        \A p \in DOMAIN disk : (p \in DOMAIN meta) <=> (RowsFor(p) >= 1)

\* Every row of the live path p holds what is on disk, and there is one.
Current(p) ==
    /\ RowsFor(p) >= 1
    /\ \A r \in DOMAIN fts : r.filepath = p => r.content = disk[p].content

\* C3: with the updater loop running on an index that is not empty, once
\* the notes are no longer changed the indexed content of every live path
\* that is not reserved equals its content on disk, from some moment on.
C3_EventuallyCurrent ==
    <>[](\/ total_files(fts) = 0
         \/ \A p \in DOMAIN disk :
               (disk[p].exists /\ ~UnderReservedSubtree(p)) => Current(p))

\* The note of p is deleted and p still has a row in one of the tables.
Orphan(p) == ~disk[p].exists /\ (RowsFor(p) >= 1 \/ p \in DOMAIN meta)

\* C4: an indexed path whose note is deleted and not created again is
\* removed from both tables by the running updater loop in the end.
C4_EventuallyRemoved == \A p \in SyncPaths : Orphan(p) ~> ~Orphan(p)

\* C5: a search with a valid query against an index that has no document
\* returns the not-ready result and has run no query on the index store.
C5_EmptyIndexNotReady ==
    (done.op \in SearchOps /\ validate_query(done.query) /\ done.empty) =>
        (done.status = "index_not_ready" /\ ~done.executed)

\* C6: FTSSearchIndex.search never raises to its caller, also when the
\* fallback scan itself fails.
C6_SearchNeverRaises == done.op = "search" => done.status = "results"

\* C7: at most one rebuild is in flight at any time.
C7_OneRebuild == BagCardinality(Frames("rebuild")) <= 1

\* C8: start_background_index creates at most one rebuild task and at most
\* one updater loop, however many searches are made.
C8_StartsOnce == spawned.rebuilds <= 1 /\ spawned.updaters <= 1

\* Two searches are in flight at once, and the first use has created the
\* rebuild task and the updater loop.
C8_Witness ==
    /\ spawned.rebuilds = 1
    /\ spawned.updaters = 1
    /\ BagCardinality([t \in {u \in InFlight : u.op = "search_notes"} |-> tasks[t]]) = 2

\* C9: no row of either table has a path under a reserved subtree, no
\* coroutine indexes one, and no pass reports one as added, modified or
\* deleted.
C9_NoReservedPath ==
    /\ \A r \in DOMAIN fts : ~UnderReservedSubtree(r.filepath)
    /\ \A p \in DOMAIN meta : ~UnderReservedSubtree(p)
    /\ \A t \in InFlight :
          /\ t.pc \in IndexPcs \cup RemovePcs => ~UnderReservedSubtree(t.path)
          /\ \A p \in Range(t.rep.added) \cup Range(t.rep.modified)
                      \cup Range(t.rep.deleted) : ~UnderReservedSubtree(p)

\* A pass that listed both reserved notes has finished and has indexed the
\* note beside them; a rebuild and a refresh have run as well.
C9_Witness ==
    /\ \E t \in InFlight :
          /\ t.kind = "updater"
          /\ t.rep.status = "updated"
          /\ {PathTrash, PathConfig} \subseteq Range(t.notes)
          /\ <<"index_file", PathA>> \in Range(t.rep.calls)
    /\ RowsFor(PathA) >= 1
    /\ calls.writes >= 1

\* The state the pass of C10 starts from: live set {A, B}, _file_mtimes
\* holding only A with a stale mtime, metadata holding A and C.
C10_Scenario ==
    /\ {p \in DOMAIN disk : disk[p].exists /\ ~UnderReservedSubtree(p)} = {PathA, PathB}
    /\ DOMAIN origin.file_mtimes = {PathA}
    /\ origin.file_mtimes[PathA] < disk[PathA].mtime
    /\ origin.indexed = {PathA, PathC}

\* C10: the pass from that state re-indexes A, indexes B and removes C, in
\* exactly three calls of the index store.
C10_ThreeCalls ==
    \A t \in InFlight :
        (C10_Scenario /\ t.kind = "updater" /\ t.rep.status = "updated") =>
            /\ Len(t.rep.calls) = 3
            /\ Range(t.rep.calls) = {<<"index_file", PathA>>,
                                     <<"index_file", PathB>>,
                                     <<"remove_file", PathC>>}
            /\ PathC \notin DOMAIN meta

\* The text of a search_notes or search_by_field call that the caller
\* supplied to be searched for: the value of a field search, the text after
\* a tag:, path: or property: prefix, else the query.
UserText(r) ==
    IF r.tool = "search_by_field" THEN r.value
    ELSE IF r.query # <<>> /\ Head(r.query) = "tag:" THEN LStripHash(Tail(r.query))
    ELSE IF r.query # <<>> /\ Head(r.query) \in {"path:", "property:"} THEN Tail(r.query)
    ELSE r.query

FacadeTools == {"search_notes", "search_by_field"}

\* C11: no statement is executed on the index store for a search or a
\* field search whose text fails validate_query, while the call runs or
\* when it has ended.
C11_RejectedNeverExecuted ==
    /\ (done.tool \in FacadeTools /\ ~validate_query(UserText(done)))
           => ~done.executed
    /\ \A t \in InFlight :
           (t.kind = "search" /\ t.tool \in FacadeTools
               /\ ~validate_query(UserText(t))) => ~t.executed

\* The call has a valid field name, and its text fails validate_query or
\* its limit is outside every range the tools accept.
ValidationFails(r) ==
    /\ r.tool \in FacadeTools
    /\ r.tool = "search_by_field" => r.field \in ValidFields
    /\ \/ ~validate_query(UserText(r))
       \/ r.limit < 1
       \/ r.limit > SearchMaxResults

\* C12: a search or field search whose validation fails ends with a result
\* handed to the caller, never with an exception.
C12_RejectionIsResult == ValidationFails(done) => done.status # "raised"

\* C13: the statement a field search on filename, tags or properties runs
\* has the query string field:"value"; a content search runs the value as
\* a plain search of the store does.
C13_FieldQueryExecuted ==
    (done.tool = "search_by_field" /\ done.executed) =>
        done.ftsq = IF done.field = "content" THEN transform_query(done.value)
                    ELSE <<done.field, ":", "\"">> \o done.value \o <<"\"">>

\* C15: a search whose text is valid and whose limit is between 1 and
\* SearchMaxResults is not rejected, with or without a tag: or path: prefix.
C15_LimitAccepted ==
    (/\ done.tool = "search_notes"
     /\ validate_query(UserText(done))
     /\ done.limit >= 1
     /\ done.limit <= SearchMaxResults) => done.status # "raised"

\* C16: a search for path:X that returns results returns the paths of the
\* indexed notes whose path has X in it.
C16_PathContains ==
    (/\ done.tool = "search_notes"
     /\ done.query # <<>>
     /\ Head(done.query) = "path:"
     /\ done.status = "results") =>
        done.results = {p \in DOMAIN meta : Contains(Chars(p), Chars(Tail(done.query)))}

\* C14: a field search on filename for the stem of a path that index_file
\* has written returns that path.
C14_FilenameRoundTrip ==
    [][\A p \in IndexPaths :
          (/\ done' # done
           /\ done'.tool = "search_by_field"
           /\ done'.field = "filename"
           /\ done'.value = Stem(p)
           /\ done'.status = "results"
           /\ RowsFor(p) >= 1) => p \in done'.results]_vars

\* The words of a query, and whether one of them is and, or, not in some
\* letter case.
WordsOf(q) == {i \in 1..Len(q) : q[i] \notin Whitespace \cup {"\""}}

OperatorWords == {"and", "or", "not"}

HasOperator(q) == \E i \in 1..Len(q) : LowerAtom(q[i]) \in OperatorWords

\* The query string a search call of the store has had translated.
Translated(t) == t.kind = "search" /\ t.tool = "search" /\ t.pc = "se_match"

\* C17: a query of several words with no operator and no double quote at
\* either end is translated to its trimmed text inside one pair of double
\* quotes; a single bare term is translated to itself.
C17_ImplicitPhrase ==
    \A t \in InFlight :
        LET q == Strip(t.query) IN
        (/\ Translated(t)
         /\ ~HasOperator(q)
         /\ Head(q) # "\""
         /\ q[Len(q)] # "\"") =>
            /\ Cardinality(WordsOf(q)) >= 2 => t.ftsq = <<"\"">> \o q \o <<"\"">>
            /\ (Len(q) = 1 /\ Cardinality(WordsOf(q)) = 1) => t.ftsq = q

\* The operator words of a query in upper case.
UpperOperator(a) ==
    CASE LowerAtom(a) = "and" -> "AND"
      [] LowerAtom(a) = "or" -> "OR"
      [] LowerAtom(a) = "not" -> "NOT"
      [] OTHER -> a

\* C18: a query with and, or, not between terms, in any letter case, is
\* translated to the same query with those words in upper case, and is not
\* wrapped in double quotes.
C18_OperatorsUppercased ==
    \A t \in InFlight :
        LET q == Strip(t.query) IN
        (/\ Translated(t)
         /\ \E i \in 2..(Len(q) - 1) :
               /\ LowerAtom(q[i]) \in OperatorWords
               /\ q[i - 1] = " "
               /\ q[i + 1] = " "
               /\ 1 \in WordsOf(q)
               /\ Len(q) \in WordsOf(q)) =>
            t.ftsq = [i \in 1..Len(q) |-> UpperOperator(q[i])]

\* The text has pattern in it when letter case is not looked at.
ContainsAnyCase(text, pattern) ==
    \E i \in 1..(Len(text) - Len(pattern) + 1) :
        \A j \in 1..Len(pattern) : UpperChar(text[i + j - 1]) = UpperChar(pattern[j])

Denylist == {<<"-", "-">>, <<";">>, <<"d", "r", "o", "p">>,
             <<"d", "e", "l", "e", "t", "e">>, <<"i", "n", "s", "e", "r", "t">>,
             <<"u", "p", "d", "a", "t", "e">>}

\* The query is empty or blank, or longer than MaxQueryLen characters, or
\* has a denylisted substring in some letter case.
Rejectable(q) ==
    \/ \A i \in 1..Len(q) : q[i] \in Whitespace
    \/ TextLen(q) > MaxQueryLen
    \/ \E pattern \in Denylist : ContainsAnyCase(Chars(q), pattern)

\* The call is decided by validate_query alone: a plain search with a limit
\* in its range, or a field search with a valid field and a limit in its range.
DecidedByQuery(r) ==
    \/ /\ r.tool = "search_notes"
       /\ r.query = <<>> \/ Head(r.query) \notin {"tag:", "path:", "property:"}
       /\ r.limit >= 1
       /\ r.limit <= SearchMaxResults
    \/ /\ r.tool = "search_by_field"
       /\ r.field \in ValidFields
       /\ r.limit >= 1
       /\ r.limit <= FieldMaxResults

\* C19: validate_query fails exactly on the queries that are empty or
\* blank, too long, or have a denylisted substring in any letter case: a
\* call it alone decides is rejected exactly for those.
C19_ValidateExact ==
    DecidedByQuery(done) => (done.status = "raised" <=> Rejectable(UserText(done)))

\* A search for Drop has been rejected, and so has one for a word with
\* update inside it.
C19_Witness ==
    /\ DecidedByQuery(done)
    /\ done.status = "raised"
    /\ done.query \in {QueryMixedCase, QueryInsideWord}

Reindexed(p) ==
    /\ Len(returned[p].contents) = 2
    /\ returned[p].serial
    /\ p \notin removed
    /\ \A u \in InFlight : u.path = p => ~Mutating(u)

\* C21: once a path has been indexed again, a search that returns finds the
\* path for a term of the new content and does not find it for a term only
\* the old content had.
C21_ReindexVisible ==
    [][\A p \in IndexPaths :
          (/\ Reindexed(p)
           /\ done' # done
           /\ done'.tool = "search"
           /\ done'.status = "results"
           /\ Len(done'.query) = 1) =>
              LET c1 == Range(returned[p].contents[1])
                  c2 == Range(returned[p].contents[2])
                  term == done'.query[1]
              IN  /\ term \in c2 => p \in done'.results
                  /\ term \in c1 \ c2 => p \notin done'.results]_vars

\* a.md was indexed with "alpha" and again with "beta gamma", and a search
\* for beta has returned it.
C21_Witness ==
    /\ Reindexed(PathA)
    /\ returned[PathA].contents = <<Content1, Content2>>
    /\ tasks = EmptyBag
    /\ done.tool = "search"
    /\ done.query = <<"beta">>
    /\ done.status = "results"
    /\ PathA \in done.results

\* C22: every step of a note tool that creates, overwrites or deletes a
\* note creates one refresh task for the path of that note.
C22_MutationSchedulesRefresh ==
    [][\A p \in DOMAIN disk :
          disk'[p] # disk[p] =>
              CopiesIn(RefreshTask(p), tasks') = CopiesIn(RefreshTask(p), tasks) + 1]_vars

\* The rebuild t ends with this step, after its table clear: the walk is
\* over and rebuild_fts_index returns indexed_count.
RebuildReturns(t) ==
    /\ t.kind = "rebuild"
    /\ t.pc \notin ClearPcs
    /\ \A u \in BagToSet(tasks') : u.kind # "rebuild"

\* indexed_count as that step leaves it.
ReturnedCount(t) ==
    IF engineUp /\ t.pc = "ix_commit" THEN t.total + 1 ELSE t.total

\* C23: when a rebuild returns, the documents of the index are live notes
\* outside the reserved folders, each with its metadata row, and there are
\* as many of them as the count the rebuild returns.
C23_RebuildExact ==
    [][\A t \in InFlight :
          RebuildReturns(t) =>
              /\ total_files(fts') = ReturnedCount(t)
              /\ \A r \in DOMAIN fts' :
                    /\ disk[r.filepath].exists
                    /\ ~IsExcluded(r.filepath)
                    /\ r.filepath \in DOMAIN meta']_vars

\* C24: whatever first calls run together, one connection is opened, and a
\* method issues its statement only when initialize has created the whole
\* schema.
C24_OneConnection ==
    /\ conn.opened <= 1
    /\ \A t \in InFlight :
          t.pc = "in_query" => conn.schema = Range(SchemaObjects)

\* C25: get_search_stats labels the index by its age in seconds, very fresh
\* under a minute, fresh under an hour, moderate under a day and stale from
\* then on; its status is ready exactly when the index has a document, and
\* an empty index is stale, with status empty.
C25_FreshnessLabels ==
    (done.op = "get_search_stats" /\ done.status # "error") =>
        /\ done.freshness.label =
              CASE done.age < 60 -> "very fresh"
                [] done.age >= 60 /\ done.age < 3600 -> "fresh"
                [] done.age >= 3600 /\ done.age < 86400 -> "moderate"
                [] OTHER -> "stale"
        /\ done.status = "ready" <=> total_files(fts) > 0
        /\ (total_files(fts) = 0 /\ DOMAIN meta = {}) =>
              /\ done.freshness.label = "stale"
              /\ done.status = "empty"

\* The index is an hour old to the second and is called moderate.
C25_Witness ==
    /\ done.op = "get_search_stats"
    /\ done.age = 3600
    /\ done.freshness.label = "moderate"
    /\ done.status = "ready"

\* The live notes outside the reserved folders.
LiveSet == {p \in DOMAIN disk : disk[p].exists /\ ~UnderReservedSubtree(p)}

\* The pass of updater frame t has classified the vault.
Classified(t) ==
    /\ t.kind = "updater"
    /\ t.pc \notin {"up_list", "up_stats"} \/ t.rep.status = "updated"

\* C26: the pass classifies a live path as added exactly when
\* _file_mtimes did not have it, as modified exactly when it had it with a
\* smaller mtime, and every path of _file_mtimes that is not live as
\* deleted; no path is in two classes.
C26_Classification ==
    \A t \in InFlight :
        Classified(t) =>
            LET added == Range(t.rep.added)
                modified == Range(t.rep.modified)
                deleted == Range(t.rep.deleted)
                before == origin.file_mtimes
            IN  /\ \A p \in LiveSet :
                      /\ p \in added <=> p \notin DOMAIN before
                      /\ p \in modified <=>
                            (p \in DOMAIN before /\ disk[p].mtime > before[p])
                /\ \A p \in DOMAIN before : p \notin LiveSet <=> p \in deleted
                /\ added \cap modified = {}
                /\ added \cap deleted = {}
                /\ modified \cap deleted = {}
                /\ added \cup modified \subseteq LiveSet

\* A pass has classified one path as added, one as modified and one as
\* deleted, and left an unchanged one out.
C26_Witness ==
    \E t \in InFlight :
        /\ Classified(t)
        /\ t.rep.status = "updated"
        /\ t.rep.added = <<PathB>>
        /\ t.rep.modified = <<PathA>>
        /\ t.rep.deleted # <<>>

\* C27: the step of a pass that writes _file_mtimes leaves it with the
\* listed notes outside the reserved folders whose mtime could be read as
\* its keys, each with the mtime read in that step.
C27_StateMatchesLive ==
    [][\A t \in InFlight :
          (/\ t.kind = "updater"
           /\ t.pc = "up_stats"
           /\ t \notin BagToSet(tasks')
           /\ engineUp
           /\ total_files(fts) > 0) =>
              file_mtimes' = [p \in LiveSet \cap Range(t.notes) |-> disk[p].mtime]]_vars


\* The loop of start_auto_update is in flight.
LoopFrames(T) == {u \in BagToSet(T) : u.kind = "updater"}

\* The step that ends coroutine t or moves it on.
Steps(t) == t \in InFlight /\ BagCardinality(tasks') <= BagCardinality(tasks)
            /\ CopiesIn(t, tasks') < CopiesIn(t, tasks)

\* C28: a pass that raises does not end the updater loop. The loop goes into
\* the longer sleep (60 s instead of 10 s), and when that sleep is over it
\* starts another pass unless stop() has been called; as long as stop() has
\* not been called the loop is in flight.
C28_LoopSurvivesFailure ==
    [][/\ \A t \in LoopFrames(tasks) :
            (t.pc = "up_stats" /\ ~engineUp /\ Steps(t)) =>
                \E u \in LoopFrames(tasks') :
                    u.pc = "up_list" /\ u.sleep = ErrorSleep /\ u.sleep > LoopSleep
       /\ \A t \in LoopFrames(tasks) :
            (t.pc = "up_list" /\ t.sleep = ErrorSleep /\ running /\ Steps(t)) =>
                \E u \in LoopFrames(tasks') : u.pc = "up_stats"
       /\ (running /\ running') => LoopFrames(tasks') # {}]_vars

\* A pass has raised and the loop is in the longer sleep, not stopped.
C28_Witness ==
    /\ running
    /\ \E t \in LoopFrames(tasks) :
          t.pc = "up_list" /\ t.rep.status = "error" /\ t.sleep = ErrorSleep


\* The loop is reading or indexing p.
Attempting(p) ==
    \E t \in LoopFrames(tasks) : t.path = p /\ t.pc \in {"up_read"} \cup IndexPcs

\* A pass has taken up the live path p and its read or its index_file
\* failed: the pass has recorded p, p has no row with its content, and the
\* pass is not about to index it.
FailedInPass(p) ==
    /\ disk[p].exists
    /\ ~IsExcluded(p)
    /\ p \in DOMAIN file_mtimes
    /\ [Row(p, disk[p].content) -> 1] \notin {[r -> 1] : r \in BagToSet(fts)}
    /\ \A t \in LoopFrames(tasks) : t.path # p /\ p \notin Range(t.walk)

\* C29: a live path whose read or indexing failed in a pass is read and
\* indexed again by a later pass, although the file is not written again,
\* as long as the loop has not been stopped and the index is not empty.
C29_FailedPathRetried ==
    \A p \in {PathA, PathB} :
        (FailedInPass(p) /\ running)
            ~> (Attempting(p) \/ ~running \/ ~disk[p].exists \/ total_files(fts) = 0)


\* The rows of table t for path p.
RowsOf(t, p) == t (-) FtsDelete(t, p)

\* The document row of p before any call was made.
PreviousRows(p) ==
    IF p \in origin.indexed THEN SetToBag({Row(p, InitialContent(p))}) ELSE EmptyBag

\* The one index_file call made on p raised at one of the statements pcs,
\* with no other statement on p in flight during the call or since.
RaisedAt(p, pcs) ==
    /\ returned[p].raised \in pcs
    /\ returned[p].contents = <<>>
    /\ returned[p].serial
    /\ \A t \in InFlight : t.path # p

\* C30: when an index_file call on p has raised after its DELETE and before
\* its commit, the next commit issued on the shared connection (by a call on
\* another path) leaves the document and metadata rows p had before the call.
C30_FailedIndexRestores ==
    [][\A u \in InFlight :
          (u.kind = "call" /\ u.pc = "ix_commit" /\ engineUp /\ Steps(u)) =>
              \A p \in IndexPaths \ {u.path} :
                  RaisedAt(p, {"ix_insert", "ix_meta"}) =>
                      /\ RowsOf(fts', p) = PreviousRows(p)
                      /\ (p \in DOMAIN meta') = (p \in origin.indexed)]_vars

====
